---- MODULE Spec2Model ----
(***************************************************************************)
(* A model of vods-rs: the bounded "first ok" race of src/first_ok/mod.rs  *)
(* (get_first_ok_bounded and its three tasks) and the probes built on it   *)
(* in src/parse/mod.rs.                                                    *)
(*                                                                         *)
(* A race is identified by a race id.  Race Top is a direct call of        *)
(* get_first_ok_bounded with an opaque checker whose outcome per item is   *)
(* fixed by the environment.  The race of a domain d is the call made by   *)
(* DomainWithPaths::get_first_valid_dwp for that domain, whose checker is  *)
(* get_m3u8_body on one (domain, path) candidate.  The races Tier1 and     *)
(* Tier2 are the two calls of get_valid_dwp (src/main.rs) over the         *)
(* domains, whose checker is a domain's get_first_valid_dwp.  Seg is the   *)
(* pipeline of get_valid_indices, which checks every segment url.          *)
(* Six specifications share the variables: Spec (a race on its own),      *)
(* SpecDwp (a domain operation), SpecProbe (get_valid_dwp), SpecSeg        *)
(* (main_helper from the segment check on), SpecHttp (retry_on_error and   *)
(* its callers) and SpecPath (the url-path functions).  SpecSched and      *)
(* SpecLive are Spec under a fair scheduler, without and with the          *)
(* assumption that every op invocation completes.                          *)
(***************************************************************************)
EXTENDS Integers, Sequences, FiniteSets, Bags, TLC

\* ------------------------------------------------------------------ bounds
MaxItems == 3
MaxConcurrent == 3
MaxPaths == 3
MaxDomains == 2
MaxSeconds == 3
MaxCandidates == 3

\* ------------------------------------------------------------ race ids
Top == 0
Seg == -1
Tier1 == -2
Tier2 == -3
Tiers == {Tier1, Tier2}
\* a domain operation per (tier, domain): 1..MaxDomains in the first tier,
\* MaxDomains+1..2*MaxDomains in the second
Domains == 1..(2 * MaxDomains)
TierDomains(t, n) == [k \in 1..n |-> IF t = Tier1 THEN k ELSE MaxDomains + k]
\* the domain of a domain operation run on its own
Dom == 1
Races == {Top, Seg} \cup Tiers \cup Domains

VARIABLES
    items,          \* [race -> sequence of items]: the `items` argument
    outcome,        \* [race -> [item -> "ok" | "err"]]: what checker(item) resolves to
                    \* (race Top: fixed by the environment; a domain's race: recorded
                    \* when the checker resolves)
    concurrent_arg, \* [race -> Nat]: the `concurrent` argument as passed
    concurrent,     \* [race -> Nat]: the local `mut concurrent` (lines 82-84)
    length,         \* [race -> Nat]: `length` (line 81)
    main_pc,        \* [race -> "idle" | "await" | "returned" | "dropped"]: get_first_ok_bounded
    result,         \* [race -> Outcome]: `result` of process_item_responses
    agg_i,          \* [race -> Nat]: iterations of `for _ in 0..length` completed
    item_chan,      \* [race -> Seq(item)]: async_channel::bounded(1) buffer
    response_chan,  \* [race -> Seq(Outcome)]: mpsc::channel(1) buffer
    prod_pc,        \* [race -> "none" | "send" | "done"]: send_item_requests task
    prod_idx,       \* [race -> Nat]: index (1-based) of the item being sent
    workers,        \* [race -> bag of worker states]: the process_item_requests tasks
    started,        \* history: [race -> [item -> Nat]], times checker(item) began to run
    finished,       \* history: [race -> set of items] whose checker ran to completion
    aborted,        \* history: [race -> set of items] whose checker future was dropped
    last_read,      \* history: [race -> Outcome], the outcome the aggregator read last
    paths,          \* [domain -> Seq(path)]: domain_with_path_list (parse/mod.rs:218)
    last,           \* [domain -> path]: `last`, popped at line 219
    dwp_pc,         \* [domain -> position of DomainWithPaths::get_first_valid_dwp]
    dwp_body,       \* [domain -> Outcome]: `body`, the result of the direct probe (line 222)
    dwp_result,     \* [domain -> Outcome]: what get_first_valid_dwp returned
    gets,           \* history: [domain -> [path -> Nat]], GET requests issued per candidate
    rq_fn,          \* the function issuing a request: "get_m3u8_body" | "url_is_valid"
    rq_pc,          \* its position: "idle" | "get1" | "get2" | "retried" | "body" | "done"
    attempts,       \* history: the outcomes of the invocations of `doer` / `doer_clone`
    retry_result,   \* what retry_on_error returned to its caller
    rq_result,      \* what get_m3u8_body / url_is_valid returned
    video_data,     \* a VideoData: [streamer_name, video_id, unix_time_seconds]
    to_unix,        \* the `to_unix` argument of get_url_path
    url_path,       \* the String get_url_path returned (a sequence of characters)
    path_pc,        \* "idle" | "path" | "parsed"
    parsed,         \* what url_path_to_video_data returned for url_path
    mediapl,        \* main_helper: `mediapl.segments`, a sequence of segments
    filter_invalid, \* main_helper: `filter_invalid`, 0 standing for None and Some(0)
    mh_pc,          \* main_helper: "idle" | "match" | "validate" | "write" | "done"
    mh_result,      \* main_helper: what it returned
    written,        \* whether write_media_playlist wrote the output file
    index_is_valid, \* get_valid_indices: `result`, the validity table
    done_count,     \* get_valid_indices: `done_count`
    gv_pc,          \* get_valid_dwp: "idle" | "tier1" | "tier2" | "done"
    gv_result,      \* get_valid_dwp: what it returned
    got_200         \* history: some GET of the probe was answered with status 200

vars == <<items, outcome, concurrent_arg, concurrent, length, main_pc, result, agg_i,
          item_chan, response_chan, prod_pc, prod_idx, workers,
          started, finished, aborted, last_read,
          paths, last, dwp_pc, dwp_body, dwp_result, gets,
          rq_fn, rq_pc, attempts, retry_result, rq_result,
          video_data, to_unix, url_path, path_pc, parsed,
          mediapl, filter_invalid, mh_pc, mh_result, written, index_is_valid, done_count,
          gv_pc, gv_result, got_200>>

raceVars == <<items, outcome, concurrent_arg, concurrent, length, main_pc, result, agg_i,
              item_chan, response_chan, prod_pc, prod_idx, workers,
              started, finished, aborted, last_read>>
dwpVars == <<paths, last, dwp_pc, dwp_body, dwp_result>>
httpVars == <<rq_fn, rq_pc, attempts, retry_result, rq_result>>

\* the state of the parts of the program a race or a domain operation never touches
pathVars == <<video_data, to_unix, url_path, path_pc, parsed>>
segVars == <<mediapl, filter_invalid, mh_pc, mh_result, written, index_is_valid, done_count>>
gvVars == <<gv_pc, gv_result, got_200>>
otherVars == <<httpVars, pathVars, segVars, gvVars>>

\* ------------------------------------------------------------ values
NoResult == [kind |-> "none", item |-> 0]          \* Option::None
Ok(i) == [kind |-> "ok", item |-> i]               \* Some(Ok(_)) produced from item i
Err(i) == [kind |-> "err", item |-> i]             \* Some(Err(_)) produced from item i
NoItem == 0
Ident(n) == [k \in 1..n |-> k]                    \* items numbered by input position

\* The worker tasks of a race are spawned from one closure and hold nothing that
\* tells them apart, so the pool is a bag of task states:
\*   pc          "recv" (line 26) | "select" (line 27, futures built, not polled)
\*               | "run" (line 28, checker polled and pending) | "send" (line 29)
\*               | "done" (task ended)
\*   item        the item moved into checker(item)
\*   op          the await point the pending checker future is suspended at
\*   res         the result being sent at line 29
\*   send_failed history: a send of this task returned Err
WorkerState(pc, item, op, res, sf) ==
    [pc |-> pc, item |-> item, op |-> op, res |-> res, send_failed |-> sf]
Spawned == WorkerState("recv", NoItem, "none", NoResult, FALSE)
Ended == WorkerState("done", NoItem, "none", NoResult, FALSE)
Pool(r) == BagToSet(workers[r])
NumWorkers(r) == BagCardinality(workers[r])
Replace(bag, old, new) == (bag (-) SetToBag({old})) (+) SetToBag({new})
\* faulty variant of BagOf: the spawn loop runs once more (`0..=concurrent`)
BagOf_OneMore(x, n) == [e \in {x} |-> n + 1]
BagOf(x, n) == IF n = 0 THEN EmptyBag ELSE [e \in {x} |-> n]

\* faulty variant of ChannelCapacity: the channels are sized by the bound on items
ChannelCapacity_PerItem == MaxItems
\* ------------------------------------------------------------ channels
\* mpsc::channel(1) and async_channel::bounded(1) (first_ok/mod.rs:85-86)
ChannelCapacity == 1

\* The mpsc receiver is moved into process_item_responses (line 109) and dropped
\* when that returns: response_sender.closed() resolves and send() returns Err.
\* A race called from inside another race's checker is dropped with that
\* checker's future when select! abandons it ("dropped"), receiver included.
ResponseClosed(r) == main_pc[r] \in {"returned", "dropped"}

\* faulty variant of ItemSenderDropped: a clone of the sender outlives the producer
ItemSenderDropped_Never(r) == FALSE
\* The only async_channel Sender is moved into the producer task (line 107).
ItemSenderDropped(r) == prod_pc[r] = "done"

\* Receivers: the original (a local of get_first_ok_bounded, dropped at its
\* return) and one clone per worker task (dropped when the task ends).
ItemReceiversDropped(r) ==
    /\ main_pc[r] \in {"returned", "dropped"}
    /\ \A ws \in Pool(r) : ws.pc = "done"

\* mpsc Senders: the original (a local of get_first_ok_bounded, alive for as long
\* as it awaits process_item_responses) and one clone per worker task.
ResponseSendersDropped(r) ==
    /\ main_pc[r] # "await"
    /\ \A ws \in Pool(r) : ws.pc = "done"

\* ------------------------------------------------------------ get_first_ok_bounded
\* faulty variants of EffectiveConcurrent: one worker too many (`0..=concurrent`), and
\* 0 read as "one worker" instead of "one worker per item"
EffectiveConcurrent_OffByOne(c, len) == IF c = 0 THEN len ELSE c + 1
EffectiveConcurrent_ZeroIsOne(c, len) == IF c = 0 THEN 1 ELSE c

\* lines 82-84: `if concurrent == 0 { concurrent = length; }`
EffectiveConcurrent(c, len) == IF c = 0 THEN len ELSE c

\* faulty variant of InitialResult: the result starts out as an error
InitialResult_Err == Err(NoItem)

\* line 42: `let mut result = None`
InitialResult == NoResult

\* The call up to its first suspension: lines 81-108 spawn the worker tasks and
\* the producer task, line 109 enters process_item_responses, whose loop body
\* never runs when length = 0 (the call then returns None at once).
CallRace(r, its, c) ==
    /\ main_pc[r] = "idle"
    /\ LET len == Len(its)
           conc == EffectiveConcurrent(c, len)
       IN /\ items' = [items EXCEPT ![r] = its]
          /\ concurrent_arg' = [concurrent_arg EXCEPT ![r] = c]
          /\ length' = [length EXCEPT ![r] = len]
          /\ concurrent' = [concurrent EXCEPT ![r] = conc]
          /\ workers' = [workers EXCEPT ![r] = BagOf(Spawned, conc)]
          /\ prod_pc' = [prod_pc EXCEPT ![r] = "send"]
          /\ prod_idx' = [prod_idx EXCEPT ![r] = 1]
          /\ result' = [result EXCEPT ![r] = InitialResult]
          /\ agg_i' = [agg_i EXCEPT ![r] = 0]
          /\ started' = [started EXCEPT ![r] = [k \in {its[x] : x \in DOMAIN its} |-> 0]]
          /\ main_pc' = [main_pc EXCEPT ![r] = IF len = 0 THEN "returned" ELSE "await"]
    /\ UNCHANGED <<outcome, item_chan, response_chan, finished, aborted, last_read>>

\* a direct call get_first_ok_bounded(items, concurrent, checker)
GetFirstOkBounded(r) ==
    /\ CallRace(r, items[r], concurrent_arg[r])
    /\ UNCHANGED <<dwpVars, gets>>
    /\ UNCHANGED otherVars

\* ------------------------------------------------------------ send_item_requests
\* the index the producer's `for item in items` moves to after sending item k
NextIndex(k) == k + 1

\* line 11, Ok: the item enters the bounded channel; after the last item the
\* loop ends and the task drops item_sender (line 16)
ProducerSend(r) ==
    /\ prod_pc[r] = "send"
    /\ prod_idx[r] <= Len(items[r])
    /\ ~ItemReceiversDropped(r)
    /\ Len(item_chan[r]) < ChannelCapacity
    /\ item_chan' = [item_chan EXCEPT ![r] = Append(@, items[r][prod_idx[r]])]
    /\ prod_idx' = [prod_idx EXCEPT ![r] = NextIndex(@)]
    /\ prod_pc' = [prod_pc EXCEPT ![r] =
                     IF NextIndex(prod_idx[r]) > Len(items[r]) THEN "done" ELSE "send"]
    /\ UNCHANGED <<items, outcome, concurrent_arg, concurrent, length, main_pc, result,
                   agg_i, response_chan, workers,
                   started, finished, aborted, last_read, dwpVars, gets>>
    /\ UNCHANGED otherVars

\* lines 11-14, Err: every receiver is gone, the task returns
ProducerSendErr(r) ==
    /\ prod_pc[r] = "send"
    /\ prod_idx[r] <= Len(items[r])
    /\ ItemReceiversDropped(r)
    /\ prod_pc' = [prod_pc EXCEPT ![r] = "done"]
    /\ UNCHANGED <<items, outcome, concurrent_arg, concurrent, length, main_pc, result,
                   agg_i, item_chan, response_chan, prod_idx, workers,
                   started, finished, aborted, last_read, dwpVars, gets>>
    /\ UNCHANGED otherVars

\* line 10 with nothing to iterate: the task ends at its first poll
ProducerReturn(r) ==
    /\ prod_pc[r] = "send"
    /\ prod_idx[r] > Len(items[r])
    /\ prod_pc' = [prod_pc EXCEPT ![r] = "done"]
    /\ UNCHANGED <<items, outcome, concurrent_arg, concurrent, length, main_pc, result,
                   agg_i, item_chan, response_chan, prod_idx, workers,
                   started, finished, aborted, last_read, dwpVars, gets>>
    /\ UNCHANGED otherVars

\* ------------------------------------------------------------ process_item_requests
\* faulty variant of ChanAfterRecv: the item is read but stays queued
ChanAfterRecv_Peek(q) == q

\* what item_receiver.recv() leaves in the channel
ChanAfterRecv(q) == Tail(q)

\* line 26, Ok(item): the worker claims the head of the item channel and builds
\* the two futures of select! (neither is polled yet)
WorkerRecv(r, ws) ==
    /\ ws.pc = "recv"
    /\ item_chan[r] # <<>>
    /\ workers' = [workers EXCEPT ![r] =
         Replace(@, ws, WorkerState("select", Head(item_chan[r]), "none", NoResult, ws.send_failed))]
    /\ item_chan' = [item_chan EXCEPT ![r] = ChanAfterRecv(@)]
    /\ UNCHANGED <<items, outcome, concurrent_arg, concurrent, length, main_pc, result,
                   agg_i, response_chan, prod_pc, prod_idx,
                   started, finished, aborted, last_read, dwpVars, gets>>
    /\ UNCHANGED otherVars

\* line 26, Err: the channel is empty and closed; the loop and the task end
WorkerRecvErr(r, ws) ==
    /\ ws.pc = "recv"
    /\ item_chan[r] = <<>>
    /\ ItemSenderDropped(r)
    /\ workers' = [workers EXCEPT ![r] = Replace(@, ws, Ended)]
    /\ UNCHANGED <<items, outcome, concurrent_arg, concurrent, length, main_pc, result,
                   agg_i, item_chan, response_chan, prod_pc, prod_idx,
                   started, finished, aborted, last_read, dwpVars, gets>>
    /\ UNCHANGED otherVars

\* The await point a checker future stops at on its first poll: the opaque
\* checker of race Top is one call; get_m3u8_body (parse/mod.rs:289-298) sends
\* its first GET (line 291).
FirstAwait(r) == IF r \in Domains THEN "get1" ELSE "call"

\* line 28, first poll of checker(item): the op invocation begins.  select!
\* polls its branches in random order, so this can happen with the response
\* channel already closed.
CheckerStart(r, ws) ==
    /\ ws.pc = "select"
    /\ workers' = [workers EXCEPT ![r] =
         Replace(@, ws, WorkerState("run", ws.item, FirstAwait(r), NoResult, ws.send_failed))]
    /\ started' = [started EXCEPT ![r][ws.item] = @ + 1]
    /\ gets' = IF r \in Domains THEN [gets EXCEPT ![r][ws.item] = @ + 1] ELSE gets
    /\ UNCHANGED <<items, outcome, concurrent_arg, concurrent, length, main_pc, result,
                   agg_i, item_chan, response_chan, prod_pc, prod_idx,
                   finished, aborted, last_read, dwpVars>>
    /\ UNCHANGED otherVars

\* faulty variant of ClosedBranchReady: select! watches the item channel instead
ClosedBranchReady_ItemChannel(r) == ItemSenderDropped(r)

\* when the `response_sender.closed()` branch of select! (line 31) can complete
ClosedBranchReady(r) == ResponseClosed(r)

\* lines 31-33: the closed() branch wins; select! drops the checker future
\* (an invocation in progress is abandoned at its await point) and the task returns
WorkerClosed(r, ws) ==
    /\ ws.pc \in {"select", "run"}
    /\ ClosedBranchReady(r)
    /\ aborted' = [aborted EXCEPT ![r] = IF ws.pc = "run" THEN @ \cup {ws.item} ELSE @]
    /\ workers' = [workers EXCEPT ![r] = Replace(@, ws, Ended)]
    /\ UNCHANGED <<items, outcome, concurrent_arg, concurrent, length, main_pc, result,
                   agg_i, item_chan, response_chan, prod_pc, prod_idx,
                   started, finished, last_read, dwpVars, gets>>
    /\ UNCHANGED otherVars

\* the Result<T, E> the checker future of race r resolves to for an item
CheckerResult(r, i) == IF outcome[r][i] = "ok" THEN Ok(i) ELSE Err(i)

\* line 28: the checker branch wins with `result`
CheckerComplete(r, ws) ==
    /\ ws.pc = "run"
    /\ ws.op = "call"
    /\ workers' = [workers EXCEPT ![r] =
         Replace(@, ws, WorkerState("send", NoItem, "none", CheckerResult(r, ws.item), ws.send_failed))]
    /\ finished' = [finished EXCEPT ![r] = @ \cup {ws.item}]
    /\ UNCHANGED <<items, outcome, concurrent_arg, concurrent, length, main_pc, result,
                   agg_i, item_chan, response_chan, prod_pc, prod_idx,
                   started, aborted, last_read, dwpVars, gets>>
    /\ UNCHANGED otherVars

\* line 29, Ok: the result enters the response channel; back to line 26
WorkerSend(r, ws) ==
    /\ ws.pc = "send"
    /\ ~ResponseClosed(r)
    /\ Len(response_chan[r]) < ChannelCapacity
    /\ response_chan' = [response_chan EXCEPT ![r] = Append(@, ws.res)]
    /\ workers' = [workers EXCEPT ![r] = Replace(@, ws, Spawned)]
    /\ UNCHANGED <<items, outcome, concurrent_arg, concurrent, length, main_pc, result,
                   agg_i, item_chan, prod_pc, prod_idx,
                   started, finished, aborted, last_read, dwpVars, gets>>
    /\ UNCHANGED otherVars

\* where the task continues after `let _ = response_sender.send(result).await`
\* returned Err: the error is discarded and the while-let loop goes on
AfterSendErr == "recv"

\* line 29, Err: the receiver is gone, the result is dropped
WorkerSendErr(r, ws) ==
    /\ ws.pc = "send"
    /\ ResponseClosed(r)
    /\ workers' = [workers EXCEPT ![r] =
         Replace(@, ws, IF AfterSendErr = "done" THEN Ended
                        ELSE WorkerState(AfterSendErr, NoItem, "none", NoResult, TRUE))]
    /\ UNCHANGED <<items, outcome, concurrent_arg, concurrent, length, main_pc, result,
                   agg_i, item_chan, response_chan, prod_pc, prod_idx,
                   started, finished, aborted, last_read, dwpVars, gets>>
    /\ UNCHANGED otherVars

\* ------------------------------------------------------------ get_m3u8_body
\* What the network can answer at an await point of get_m3u8_body: a GET
\* (line 291) gets a 200, another status, or fails at transport level (timeout,
\* connection); reading the body (line 296) yields the bytes or fails.
Responses(op) == IF op = "body" THEN {"bytes", "transport"}
                 ELSE {"200", "status", "transport"}

\* faulty variant of AfterTransportErr: an Err is returned as it is
AfterTransportErr_NoRetry(op) == "err"

\* faulty variant of AfterResponse: every response goes on to the body
AfterResponse_AnyStatus(status) == "body"

\* retry_on_error (lines 66-77): an Err of the first attempt runs the clone
\* once more, an Err of the second attempt is returned
AfterTransportErr(op) == IF op = "get1" THEN "get2" ELSE "err"

\* lines 292-295: a response with status 200 goes on to the body, any other
\* status is an error
AfterResponse(status) == IF status = "200" THEN "body" ELSE "err"

\* get_m3u8_body resumed with the network's answer at await point op: the
\* next await point, or "ok" / "err" when it returns
M3u8Next(op, resp) ==
    IF op = "body" THEN (IF resp = "bytes" THEN "ok" ELSE "err")
    ELSE IF resp = "transport" THEN AfterTransportErr(op)
    ELSE AfterResponse(resp)

\* whether a GET has been answered with status 200 (line 292), after an answer
Got200After(seen, resp) == seen \/ resp = "200"

\* the requests a step of get_m3u8_body adds for its candidate
GetsAfter(n, next) == IF next = "get2" THEN n + 1 ELSE n

\* line 28 in a domain's race: the checker (lines 231-234, get_m3u8_body on the
\* item) is resumed and either stays pending or completes with its result
ProbeStep(r, ws, resp) ==
    /\ r \in Domains
    /\ ws.pc = "run"
    /\ ws.op \in {"get1", "get2", "body"}
    /\ resp \in Responses(ws.op)
    /\ LET next == M3u8Next(ws.op, resp)
       IN /\ workers' = [workers EXCEPT ![r] = Replace(@, ws,
                IF next = "ok"
                THEN WorkerState("send", NoItem, "none", Ok(ws.item), ws.send_failed)
                ELSE IF next = "err"
                THEN WorkerState("send", NoItem, "none", Err(ws.item), ws.send_failed)
                ELSE WorkerState("run", ws.item, next, NoResult, ws.send_failed))]
          /\ finished' = [finished EXCEPT ![r] =
                IF next \in {"ok", "err"} THEN @ \cup {ws.item} ELSE @]
          /\ outcome' = [outcome EXCEPT ![r] =
                IF next \in {"ok", "err"} THEN (ws.item :> next) @@ @ ELSE @]
          /\ gets' = [gets EXCEPT ![r][ws.item] = GetsAfter(@, next)]
          /\ got_200' = Got200After(got_200, resp)
    /\ UNCHANGED <<items, concurrent_arg, concurrent, length, main_pc, result,
                   agg_i, item_chan, response_chan, prod_pc, prod_idx,
                   started, aborted, last_read, dwpVars>>
    /\ UNCHANGED <<httpVars, pathVars, segVars, gv_pc, gv_result>>

\* ------------------------------------------------------------ DomainWithPaths::get_first_valid_dwp
\* faulty variant of PoppedIndex: the first candidate is taken instead of the last
PoppedIndex_First(list) == 1

\* faulty variant of AfterPop: `last` is read but stays in the list
AfterPop_Keep(list) == list

\* line 219: the candidate `pop()` takes off the list, and what it leaves
PoppedIndex(list) == Len(list)
AfterPop(list) == [k \in 1..(Len(list) - 1) |-> list[k]]

\* line 231: the concurrency the race over the remaining candidates is given
DwpConcurrent == 0

\* the error of `pop().context("no urls")?` on an empty list
NoUrls == Err(NoItem)

\* lines 218-222: build the list, pop `last` (an empty list returns the
\* "no urls" error), and send the first GET of last.get_m3u8_body
DwpStartCore(d) ==
    /\ dwp_pc[d] = "idle"
    /\ IF paths[d] = <<>>
       THEN /\ dwp_pc' = [dwp_pc EXCEPT ![d] = "done"]
            /\ dwp_result' = [dwp_result EXCEPT ![d] = NoUrls]
            /\ UNCHANGED <<paths, last, gets>>
       ELSE /\ last' = [last EXCEPT ![d] = paths[d][PoppedIndex(paths[d])]]
            /\ paths' = [paths EXCEPT ![d] = AfterPop(@)]
            /\ gets' = [gets EXCEPT ![d][paths[d][PoppedIndex(paths[d])]] = @ + 1]
            /\ dwp_pc' = [dwp_pc EXCEPT ![d] = "get1"]
            /\ UNCHANGED dwp_result
    /\ UNCHANGED dwp_body

\* a direct call of get_first_valid_dwp on a domain
DwpStart(d) ==
    /\ DwpStartCore(d)
    /\ UNCHANGED raceVars
    /\ UNCHANGED otherVars

\* line 222 pending: the direct probe moves to its next await point
DwpProbeStep(d, resp) ==
    /\ dwp_pc[d] \in {"get1", "get2", "body"}
    /\ resp \in Responses(dwp_pc[d])
    /\ M3u8Next(dwp_pc[d], resp) \notin {"ok", "err"}
    /\ dwp_pc' = [dwp_pc EXCEPT ![d] = M3u8Next(dwp_pc[d], resp)]
    /\ gets' = [gets EXCEPT ![d][last[d]] = GetsAfter(@, M3u8Next(dwp_pc[d], resp))]
    /\ got_200' = Got200After(got_200, resp)
    /\ UNCHANGED <<raceVars, paths, last, dwp_body, dwp_result>>
    /\ UNCHANGED <<httpVars, pathVars, segVars, gv_pc, gv_result>>

\* lines 223-224: the direct probe returned Ok(body); return it with `last`
DwpProbeOk(d, resp) ==
    /\ dwp_pc[d] \in {"get1", "get2", "body"}
    /\ resp \in Responses(dwp_pc[d])
    /\ M3u8Next(dwp_pc[d], resp) = "ok"
    /\ dwp_body' = [dwp_body EXCEPT ![d] = Ok(last[d])]
    /\ dwp_result' = [dwp_result EXCEPT ![d] = Ok(last[d])]
    /\ dwp_pc' = [dwp_pc EXCEPT ![d] = "done"]
    /\ UNCHANGED <<raceVars, paths, last, gets>>
    /\ UNCHANGED otherVars

\* lines 225-235: the direct probe returned Err(err); the remaining candidates
\* go to get_first_ok_bounded, which runs up to its first suspension
DwpProbeErr(d, resp) ==
    /\ dwp_pc[d] \in {"get1", "get2", "body"}
    /\ resp \in Responses(dwp_pc[d])
    /\ M3u8Next(dwp_pc[d], resp) = "err"
    /\ dwp_body' = [dwp_body EXCEPT ![d] = Err(last[d])]
    /\ CallRace(d, paths[d], DwpConcurrent)
    /\ dwp_pc' = [dwp_pc EXCEPT ![d] = "race"]
    /\ UNCHANGED <<paths, last, dwp_result, gets>>
    /\ UNCHANGED otherVars

\* lines 236-239: the race returned; Some(result) is the result, None is Err(err)
DwpRaceReturn(d) ==
    /\ dwp_pc[d] = "race"
    /\ main_pc[d] = "returned"
    /\ dwp_result' = [dwp_result EXCEPT ![d] =
                        IF result[d] = NoResult THEN dwp_body[d] ELSE result[d]]
    /\ dwp_pc' = [dwp_pc EXCEPT ![d] = "done"]
    /\ UNCHANGED <<raceVars, paths, last, dwp_body, gets>>
    /\ UNCHANGED otherVars

\* ------------------------------------------------------------ process_item_responses
\* faulty variants of RecordResponse: the Ok arm does not store its outcome, and
\* the Err arm keeps the first error instead of the last
RecordResponse_OkDropped(res, cur) == IF cur.kind = "ok" THEN res ELSE cur
RecordResponse_KeepFirst(res, cur) == IF cur.kind = "err" /\ res.kind = "err" THEN res ELSE cur

\* lines 46-54: both arms store the outcome just read
RecordResponse(res, cur) == cur

\* faulty variant of BreaksOn: the Err arm breaks too
BreaksOn_Any(cur) == TRUE
\* faulty variant of BreaksOn: the loop reads on after a success
BreaksOn_Never(cur) == FALSE

\* lines 47-50: only Ok breaks out of the loop
BreaksOn(cur) == cur.kind = "ok"

\* line 44 and the match on it: one iteration of `for _ in 0..length`.
\* recv() yields None only with an empty buffer and every Sender dropped, which
\* the Sender local to get_first_ok_bounded rules out while this loop runs.
AggregatorRecv(r) ==
    /\ main_pc[r] = "await"
    /\ IF response_chan[r] # <<>> THEN TRUE ELSE ResponseSendersDropped(r)
    /\ LET some == response_chan[r] # <<>>
           cur == IF some THEN Head(response_chan[r]) ELSE NoResult
           res == IF some THEN RecordResponse(result[r], cur) ELSE result[r]
           brk == IF some THEN BreaksOn(cur) ELSE TRUE
           ret == brk \/ agg_i[r] + 1 >= length[r]
       IN /\ result' = [result EXCEPT ![r] = res]
          /\ agg_i' = [agg_i EXCEPT ![r] = @ + 1]
          /\ last_read' = [last_read EXCEPT ![r] = IF some THEN cur ELSE @]
          /\ main_pc' = [main_pc EXCEPT ![r] = IF ret THEN "returned" ELSE "await"]
          \* returning drops the receiver and whatever is still buffered
          /\ response_chan' = [response_chan EXCEPT ![r] =
                                 IF ret \/ ~some THEN <<>> ELSE Tail(@)]
    /\ UNCHANGED <<items, outcome, concurrent_arg, concurrent, length,
                   item_chan, prod_pc, prod_idx, workers,
                   started, finished, aborted, dwpVars, gets>>
    /\ UNCHANGED otherVars

\* ------------------------------------------------------------ get_first_valid_dwp over domains
\* The race of a tier (parse/mod.rs:247-259) is get_first_ok_bounded over the
\* domains with concurrency 0 and the checker
\* `|(item, client)| item.get_first_valid_dwp(client)`: a worker of it runs
\* the domain operation of the item it holds.
TierConcurrent == 0

\* first_ok/mod.rs:28, first poll of the checker: the domain operation starts
\* (DwpStartCore); select! polls in random order, so this can happen with the
\* response channel already closed
OuterCheckerStart(r, ws) ==
    /\ ws.pc = "select"
    /\ workers' = [workers EXCEPT ![r] =
         Replace(@, ws, WorkerState("run", ws.item, "dwp", NoResult, ws.send_failed))]
    /\ started' = [started EXCEPT ![r][ws.item] = @ + 1]
    /\ DwpStartCore(ws.item)
    /\ UNCHANGED <<items, outcome, concurrent_arg, concurrent, length, main_pc, result,
                   agg_i, item_chan, response_chan, prod_pc, prod_idx,
                   finished, aborted, last_read>>
    /\ UNCHANGED otherVars

\* first_ok/mod.rs:28: the domain operation has returned, the checker branch
\* wins with its result
OuterCheckerComplete(r, ws) ==
    /\ ws.pc = "run"
    /\ ws.op = "dwp"
    /\ dwp_pc[ws.item] = "done"
    /\ workers' = [workers EXCEPT ![r] = Replace(@, ws,
         WorkerState("send", NoItem, "none",
                     IF dwp_result[ws.item].kind = "ok" THEN Ok(ws.item) ELSE Err(ws.item),
                     ws.send_failed))]
    /\ finished' = [finished EXCEPT ![r] = @ \cup {ws.item}]
    /\ outcome' = [outcome EXCEPT ![r] = (ws.item :> dwp_result[ws.item].kind) @@ @]
    /\ UNCHANGED <<items, concurrent_arg, concurrent, length, main_pc, result,
                   agg_i, item_chan, response_chan, prod_pc, prod_idx,
                   started, aborted, last_read, dwpVars, gets>>
    /\ UNCHANGED otherVars

\* first_ok/mod.rs:31-33: the closed() branch wins; select! drops the future
\* of the domain operation, and with it the race that operation was awaiting
\* (its receiver and what it buffered); the tasks that race spawned live on
OuterWorkerClosed(r, ws) ==
    /\ ws.pc \in {"select", "run"}
    /\ ClosedBranchReady(r)
    /\ aborted' = [aborted EXCEPT ![r] = IF ws.pc = "run" THEN @ \cup {ws.item} ELSE @]
    /\ workers' = [workers EXCEPT ![r] = Replace(@, ws, Ended)]
    /\ dwp_pc' = IF ws.pc = "run" THEN [dwp_pc EXCEPT ![ws.item] = "dropped"] ELSE dwp_pc
    /\ main_pc' = IF ws.pc = "run" /\ main_pc[ws.item] = "await"
                  THEN [main_pc EXCEPT ![ws.item] = "dropped"] ELSE main_pc
    /\ response_chan' = IF ws.pc = "run" /\ main_pc[ws.item] = "await"
                        THEN [response_chan EXCEPT ![ws.item] = <<>>] ELSE response_chan
    /\ UNCHANGED <<items, outcome, concurrent_arg, concurrent, length, result,
                   agg_i, item_chan, prod_pc, prod_idx,
                   started, finished, last_read,
                   paths, last, dwp_body, dwp_result, gets>>
    /\ UNCHANGED otherVars

\* ------------------------------------------------------------ get_valid_dwp
\* faulty variant of NoDomainsSupplied: the empty race is reported as a failed probe
NoDomainsSupplied_AsFailure == Err(NoItem)

\* the error of main.rs:132
NoDomainsSupplied == [kind |-> "no domains supplied", item |-> NoItem]

\* faulty variants of TierSucceeded: a success is not recognised, and a
\* failure is taken for one
TierSucceeded_Never(res) == FALSE
TierSucceeded_Inverted(res) == res.kind = "err"

\* main.rs:125: `if let Some(Ok(x))`
TierSucceeded(res) == res.kind = "ok"

GvIdle ==
    /\ gv_pc = "idle"
    /\ gv_result = NoResult
    /\ got_200 = FALSE

\* main.rs:123-124: the first tier's list (to_unix = true) goes to the race
\* over the domains, which runs up to its first suspension
GetValidDwp(n) ==
    /\ gv_pc = "idle"
    /\ CallRace(Tier1, TierDomains(Tier1, n), TierConcurrent)
    /\ gv_pc' = "tier1"
    /\ UNCHANGED <<gv_result, got_200, dwpVars, gets, httpVars, pathVars, segVars>>

\* main.rs:125-127: `if let Some(Ok(x))`: the first tier's success is returned
GvTier1Ok ==
    /\ gv_pc = "tier1"
    /\ main_pc[Tier1] = "returned"
    /\ TierSucceeded(result[Tier1])
    /\ gv_result' = result[Tier1]
    /\ gv_pc' = "done"
    /\ UNCHANGED <<got_200, raceVars, dwpVars, gets, httpVars, pathVars, segVars>>

\* main.rs:128-129: otherwise the second tier's list (to_unix = false) goes
\* to a second race over the same domains
GvTier1Fail ==
    /\ gv_pc = "tier1"
    /\ main_pc[Tier1] = "returned"
    /\ ~TierSucceeded(result[Tier1])
    /\ CallRace(Tier2, TierDomains(Tier2, Len(items[Tier1])), TierConcurrent)
    /\ gv_pc' = "tier2"
    /\ UNCHANGED <<gv_result, got_200, dwpVars, gets, httpVars, pathVars, segVars>>

\* main.rs:130-133: Some(result) is returned as it is, None is the
\* "no domains supplied" error
GvTier2Return ==
    /\ gv_pc = "tier2"
    /\ main_pc[Tier2] = "returned"
    /\ gv_result' = IF result[Tier2] = NoResult THEN NoDomainsSupplied ELSE result[Tier2]
    /\ gv_pc' = "done"
    /\ UNCHANGED <<got_200, raceVars, dwpVars, gets, httpVars, pathVars, segVars>>

\* ------------------------------------------------------------ retry_on_error and its callers
\* What one invocation of the retried operation, `client.get(url).send()`, can
\* resolve to: a response of some status, or a transport-level error.
Statuses == {"200", "206", "403", "404", "500"}
TransportErrors == {"timeout", "connect", "dns"}
Response(n, status) == [n |-> n, ok |-> TRUE, val |-> status]
SendError(n, e) == [n |-> n, ok |-> FALSE, val |-> e]
NoAttempt == [n |-> 0, ok |-> FALSE, val |-> "none"]

\* the invocations of the operation begun so far
Invocations == Len(attempts) + (IF rq_pc \in {"get1", "get2"} THEN 1 ELSE 0)

\* what the status comparison of lines 293 and 410 sees of a status
StatusClass(status) == IF status = "200" THEN "200" ELSE "status"

HttpFns == {"get_m3u8_body", "url_is_valid"}
Failure(stage, val) == [ok |-> FALSE, stage |-> stage, val |-> val]
Success(val) == [ok |-> TRUE, stage |-> "done", val |-> val]
NoReturn == [ok |-> FALSE, stage |-> "none", val |-> "none"]

HttpIdle(f) ==
    /\ rq_fn = f
    /\ rq_pc = "idle"
    /\ attempts = <<>>
    /\ retry_result = NoAttempt
    /\ rq_result = NoReturn

\* lines 291 / 408 with line 71: the caller enters retry_on_error, which
\* clones the operation and invokes it for the first time
RetryOnError ==
    /\ rq_pc = "idle"
    /\ rq_fn \in HttpFns
    /\ rq_pc' = "get1"
    /\ UNCHANGED <<rq_fn, attempts, retry_result, rq_result>>
    /\ UNCHANGED <<raceVars, dwpVars, gets, pathVars, segVars, gvVars>>

\* lines 72-73 and 75: an invocation resolves to Ok, which retry_on_error returns
RetryOk(status) ==
    /\ rq_pc \in {"get1", "get2"}
    /\ attempts' = Append(attempts, Response(Len(attempts) + 1, status))
    /\ retry_result' = Response(Len(attempts) + 1, status)
    /\ rq_pc' = "retried"
    /\ UNCHANGED <<rq_fn, rq_result>>
    /\ UNCHANGED <<raceVars, dwpVars, gets, pathVars, segVars, gvVars>>

\* lines 72 and 74-75: an invocation resolves to Err; the Err of the first one
\* invokes the clone, the Err of the clone is what retry_on_error returns
RetryErr(e) ==
    /\ rq_pc \in {"get1", "get2"}
    /\ attempts' = Append(attempts, SendError(Len(attempts) + 1, e))
    /\ IF AfterTransportErr(rq_pc) = "err"
       THEN /\ retry_result' = SendError(Len(attempts) + 1, e)
            /\ rq_pc' = "retried"
       ELSE /\ rq_pc' = AfterTransportErr(rq_pc)
            /\ UNCHANGED retry_result
    /\ UNCHANGED <<rq_fn, rq_result>>
    /\ UNCHANGED <<raceVars, dwpVars, gets, pathVars, segVars, gvVars>>

\* get_m3u8_body lines 291-296: `?` returns the error of retry_on_error, a
\* status other than 200 is an error, a 200 goes on to read the body
GetM3u8BodyResume ==
    /\ rq_fn = "get_m3u8_body"
    /\ rq_pc = "retried"
    /\ IF ~retry_result.ok
       THEN /\ rq_result' = Failure("send", retry_result.val)
            /\ rq_pc' = "done"
       ELSE IF AfterResponse(StatusClass(retry_result.val)) = "err"
       THEN /\ rq_result' = Failure("status", retry_result.val)
            /\ rq_pc' = "done"
       ELSE /\ rq_pc' = AfterResponse(StatusClass(retry_result.val))
            /\ UNCHANGED rq_result
    /\ UNCHANGED <<rq_fn, attempts, retry_result>>
    /\ UNCHANGED <<raceVars, dwpVars, gets, pathVars, segVars, gvVars>>

\* get_m3u8_body lines 296-297: `response.bytes().await?`, then Ok(bytes)
GetM3u8BodyBytes(b) ==
    /\ rq_fn = "get_m3u8_body"
    /\ rq_pc = "body"
    /\ rq_result' = IF b = "bytes" THEN Success(b) ELSE Failure("bytes", b)
    /\ rq_pc' = "done"
    /\ UNCHANGED <<rq_fn, attempts, retry_result>>
    /\ UNCHANGED <<raceVars, dwpVars, gets, pathVars, segVars, gvVars>>

\* url_is_valid lines 409-412: Ok(response) is valid exactly at status 200,
\* Err is invalid
UrlIsValidResume ==
    /\ rq_fn = "url_is_valid"
    /\ rq_pc = "retried"
    /\ rq_result' = IF retry_result.ok /\ StatusClass(retry_result.val) = "200"
                    THEN Success("true")
                    ELSE IF retry_result.ok THEN Failure("status", "false")
                    ELSE Failure("send", "false")
    /\ rq_pc' = "done"
    /\ UNCHANGED <<rq_fn, attempts, retry_result>>
    /\ UNCHANGED <<raceVars, dwpVars, gets, pathVars, segVars, gvVars>>

\* ------------------------------------------------------------ url paths
\* Strings are sequences of one-character strings.
MaxNameLen == 3
MaxIdLen == 2
HashLen == 20
Underscore == "_"
Strings(chars, n) == UNION {[1..k -> chars] : k \in 0..n}

\* i64 / usize Display: the decimal digits, "-" in front of a negative number
DigitChars == <<"0", "1", "2", "3", "4", "5", "6", "7", "8", "9">>
RECURSIVE Decimal(_)
Decimal(n) == IF n < 10 THEN <<DigitChars[n + 1]>>
              ELSE Decimal(n \div 10) \o <<DigitChars[(n % 10) + 1]>>
I64ToString(n) == IF n < 0 THEN <<"-">> \o Decimal(-n) ELSE Decimal(n)

\* str::parse::<i64>: an optional sign, then one or more decimal digits
IsDigit(c) == \E d \in 1..10 : DigitChars[d] = c
DigitValue(c) == (CHOOSE d \in 1..10 : DigitChars[d] = c) - 1
RECURSIVE DigitsValue(_, _)
DigitsValue(str, acc) == IF str = <<>> THEN acc
                         ELSE DigitsValue(Tail(str), 10 * acc + DigitValue(Head(str)))
ParseI64(str) ==
    LET signed == str # <<>> /\ Head(str) \in {"-", "+"}
        digits == IF signed THEN Tail(str) ELSE str
    IN IF digits = <<>> \/ \E k \in DOMAIN digits : ~IsDigit(digits[k])
       THEN [ok |-> FALSE, val |-> 0]
       ELSE [ok |-> TRUE,
             val |-> IF signed /\ Head(str) = "-" THEN -DigitsValue(digits, 0)
                     ELSE DigitsValue(digits, 0)]

VideoData(s, v, t) == [streamer_name |-> s, video_id |-> v, unix_time_seconds |-> t]
NoVideoData == VideoData(<<>>, <<>>, 0)

\* lines 150-156: the closure get_url_path hands to its helper, timestamp() or
\* second() (the second of the minute) printed in decimal
TimeToString(unix, t) == IF unix THEN I64ToString(t) ELSE I64ToString(t % 60)

\* lines 162-167: format!("{}_{}_{}", streamer_name, video_id, time)
BaseUrl(vd, unix) ==
    vd.streamer_name \o <<Underscore>> \o vd.video_id \o <<Underscore>>
        \o TimeToString(unix, vd.unix_time_seconds)

\* lines 168-172: the first 20 characters of the hex encoding of a SHA-1
\* digest; which hexadecimal digits they are is left open
HexChars == {"0", "9", "a", "f"}
Hashes == {[k \in 1..HashLen |-> IF k % 2 = 0 THEN a ELSE b] : a, b \in HexChars}

\* line 173: format!("{}_{}", hashed_base_url, base_url)
GetUrlPathHelper(hash, vd, unix) == hash \o <<Underscore>> \o BaseUrl(vd, unix)

\* lines 81-85: the indices of all underscores, ascending
AllUnderscoreIndices(str) == {k \in DOMAIN str : str[k] = Underscore}
RECURSIVE Ascending(_)
Ascending(set) ==
    IF set = {} THEN <<>>
    ELSE LET m == CHOOSE x \in set : \A y \in set : x <= y
         IN <<m>> \o Ascending(set \ {m})

\* faulty variant of UnderscoreIndices: the first three underscores
UnderscoreIndices_FirstThree(all) == <<all[1], all[2], all[3]>>

\* lines 90-94: the first underscore and the last two
UnderscoreIndices(all) == <<all[1], all[Len(all) - 1], all[Len(all)]>>

\* lines 80-106
UrlPathToVideoData(str) ==
    LET all == Ascending(AllUnderscoreIndices(str))
    IN IF Len(all) < 3 THEN [ok |-> FALSE, data |-> NoVideoData]
       ELSE LET u == UnderscoreIndices(all)
                streamer_name == SubSeq(str, u[1] + 1, u[2] - 1)
                video_id == SubSeq(str, u[2] + 1, u[3] - 1)
                unix_time_string == SubSeq(str, u[3] + 1, Len(str))
                unix_time_int == ParseI64(unix_time_string)
            IN IF ~unix_time_int.ok THEN [ok |-> FALSE, data |-> NoVideoData]
               ELSE [ok |-> TRUE,
                     data |-> VideoData(streamer_name, video_id, unix_time_int.val)]
NotParsed == [ok |-> FALSE, data |-> NoVideoData]

PathIdle(vd, str) ==
    /\ video_data = vd
    /\ to_unix = TRUE
    /\ url_path = str
    /\ path_pc = "idle"
    /\ parsed = NotParsed

\* lines 150-174: video_data.get_url_path(unix)
GetUrlPath(unix, hash) ==
    /\ path_pc = "idle"
    /\ url_path = <<>>
    /\ to_unix' = unix
    /\ url_path' = GetUrlPathHelper(hash, video_data, unix)
    /\ path_pc' = "path"
    /\ UNCHANGED <<video_data, parsed>>
    /\ UNCHANGED <<raceVars, dwpVars, gets, httpVars, segVars, gvVars>>

\* lines 80-106: url_path_to_video_data(url_path)
ParseUrlPath ==
    /\ path_pc \in {"idle", "path"}
    /\ url_path # <<>>
    /\ parsed' = UrlPathToVideoData(url_path)
    /\ path_pc' = "parsed"
    /\ UNCHANGED <<video_data, to_unix, url_path>>
    /\ UNCHANGED <<raceVars, dwpVars, gets, httpVars, segVars, gvVars>>

\* ------------------------------------------------------------ get_valid_indices
\* The pipeline of get_valid_indices (parse/mod.rs:355-405) is kept in the
\* race variables under the id Seg: items[Seg] are the indices of `urls`,
\* item_chan[Seg] is the request_indices channel, response_chan[Seg] the
\* valid_indices channel, workers[Seg] the checking tasks, agg_i[Seg] the
\* iterations of the collecting loop.  Some(index) is Ok(index), the None a
\* worker sends for an invalid url is NoResult: it carries no index.
MaxSegments == 3
MaxCheckConcurrent == 3

\* lines 355-391 up to the first suspension: the channels, `concurrent` worker
\* tasks, the producer task, the table of `false`; with no url the collecting
\* loop has nothing to iterate and the function returns at once
GetValidIndices(urls, c) ==
    /\ main_pc[Seg] = "idle"
    /\ items' = [items EXCEPT ![Seg] = urls]
    /\ concurrent_arg' = [concurrent_arg EXCEPT ![Seg] = c]
    /\ concurrent' = [concurrent EXCEPT ![Seg] = c]
    /\ length' = [length EXCEPT ![Seg] = Len(urls)]
    /\ workers' = [workers EXCEPT ![Seg] = BagOf(Spawned, c)]
    /\ prod_pc' = [prod_pc EXCEPT ![Seg] = "send"]
    /\ prod_idx' = [prod_idx EXCEPT ![Seg] = 1]
    /\ agg_i' = [agg_i EXCEPT ![Seg] = 0]
    /\ started' = [started EXCEPT ![Seg] = [k \in DOMAIN urls |-> 0]]
    /\ done_count' = 0
    /\ index_is_valid' = [k \in DOMAIN urls |-> FALSE]
    /\ main_pc' = [main_pc EXCEPT ![Seg] = IF Len(urls) = 0 THEN "returned" ELSE "await"]
    /\ UNCHANGED <<outcome, result, item_chan, response_chan, finished, aborted, last_read>>

\* lines 382-386, Ok: `for i in 0..urls.len()` sends index i; after the last
\* one the task ends and drops request_indices_sender
SegProducerSend ==
    /\ prod_pc[Seg] = "send"
    /\ prod_idx[Seg] <= Len(items[Seg])
    /\ ~ItemReceiversDropped(Seg)
    /\ Len(item_chan[Seg]) < ChannelCapacity
    /\ item_chan' = [item_chan EXCEPT ![Seg] = Append(@, prod_idx[Seg])]
    /\ prod_idx' = [prod_idx EXCEPT ![Seg] = @ + 1]
    /\ prod_pc' = [prod_pc EXCEPT ![Seg] =
                     IF prod_idx[Seg] + 1 > Len(items[Seg]) THEN "done" ELSE "send"]
    /\ UNCHANGED <<items, outcome, concurrent_arg, concurrent, length, main_pc, result,
                   agg_i, response_chan, workers,
                   started, finished, aborted, last_read, dwpVars, gets>>
    /\ UNCHANGED otherVars

\* line 382 with no url: the producer task ends at its first poll
SegProducerReturn ==
    /\ prod_pc[Seg] = "send"
    /\ prod_idx[Seg] > Len(items[Seg])
    /\ prod_pc' = [prod_pc EXCEPT ![Seg] = "done"]
    /\ UNCHANGED <<items, outcome, concurrent_arg, concurrent, length, main_pc, result,
                   agg_i, item_chan, response_chan, prod_idx, workers,
                   started, finished, aborted, last_read, dwpVars, gets>>
    /\ UNCHANGED otherVars

\* lines 365-368, Ok(request_index): the worker claims the head of the channel
\* and polls url_is_valid, which sends its first GET (line 408)
SegWorkerRecv(ws) ==
    /\ ws.pc = "recv"
    /\ item_chan[Seg] # <<>>
    /\ workers' = [workers EXCEPT ![Seg] =
         Replace(@, ws, WorkerState("run", Head(item_chan[Seg]), "get1", NoResult, FALSE))]
    /\ item_chan' = [item_chan EXCEPT ![Seg] = Tail(@)]
    /\ started' = [started EXCEPT ![Seg][Head(item_chan[Seg])] = @ + 1]
    /\ UNCHANGED <<items, outcome, concurrent_arg, concurrent, length, main_pc, result,
                   agg_i, response_chan, prod_pc, prod_idx,
                   finished, aborted, last_read, dwpVars, gets>>
    /\ UNCHANGED otherVars

\* line 365, Err: the channel is empty and its sender dropped; the task ends
SegWorkerRecvErr(ws) ==
    /\ ws.pc = "recv"
    /\ item_chan[Seg] = <<>>
    /\ ItemSenderDropped(Seg)
    /\ workers' = [workers EXCEPT ![Seg] = Replace(@, ws, Ended)]
    /\ UNCHANGED <<items, outcome, concurrent_arg, concurrent, length, main_pc, result,
                   agg_i, item_chan, response_chan, prod_pc, prod_idx,
                   started, finished, aborted, last_read, dwpVars, gets>>
    /\ UNCHANGED otherVars

\* url_is_valid (lines 407-413) resumed with the network's answer to the GET
\* at await point op: the retry (retry_on_error), or "ok" (status 200) / "err"
UrlIsValidNext(op, resp) ==
    IF resp = "transport" THEN AfterTransportErr(op)
    ELSE IF resp = "200" THEN "ok" ELSE "err"

\* lines 368-372: Some(request_index) for a valid url, None for an invalid one
CheckResult(index, valid) == IF valid THEN Ok(index) ELSE NoResult

\* lines 368-372: the check of the claimed url moves to its retry or completes
UrlIsValidStep(ws, resp) ==
    /\ ws.pc = "run"
    /\ ws.op \in {"get1", "get2"}
    /\ resp \in Responses(ws.op)
    /\ LET next == UrlIsValidNext(ws.op, resp)
       IN /\ workers' = [workers EXCEPT ![Seg] = Replace(@, ws,
                IF next \in {"ok", "err"}
                THEN WorkerState("send", NoItem, "none", CheckResult(ws.item, next = "ok"), FALSE)
                ELSE WorkerState("run", ws.item, next, NoResult, FALSE))]
          /\ finished' = [finished EXCEPT ![Seg] =
                IF next \in {"ok", "err"} THEN @ \cup {ws.item} ELSE @]
          /\ outcome' = [outcome EXCEPT ![Seg] =
                IF next \in {"ok", "err"} THEN (ws.item :> next) @@ @ ELSE @]
    /\ UNCHANGED <<items, concurrent_arg, concurrent, length, main_pc, result,
                   agg_i, item_chan, response_chan, prod_pc, prod_idx,
                   started, aborted, last_read, dwpVars, gets>>
    /\ UNCHANGED otherVars

\* line 373, Ok: the result enters the channel; back to line 365
SegWorkerSend(ws) ==
    /\ ws.pc = "send"
    /\ ~ResponseClosed(Seg)
    /\ Len(response_chan[Seg]) < ChannelCapacity
    /\ response_chan' = [response_chan EXCEPT ![Seg] = Append(@, ws.res)]
    /\ workers' = [workers EXCEPT ![Seg] = Replace(@, ws, Spawned)]
    /\ UNCHANGED <<items, outcome, concurrent_arg, concurrent, length, main_pc, result,
                   agg_i, item_chan, prod_pc, prod_idx,
                   started, finished, aborted, last_read, dwpVars, gets>>
    /\ UNCHANGED otherVars

\* lines 373-375, Err: the receiver is gone and the task returns
SegWorkerSendErr(ws) ==
    /\ ws.pc = "send"
    /\ ResponseClosed(Seg)
    /\ workers' = [workers EXCEPT ![Seg] = Replace(@, ws, Ended)]
    /\ UNCHANGED <<items, outcome, concurrent_arg, concurrent, length, main_pc, result,
                   agg_i, item_chan, response_chan, prod_pc, prod_idx,
                   started, finished, aborted, last_read, dwpVars, gets>>
    /\ UNCHANGED otherVars

\* faulty variant of CollectorReturns: the loop ends with the first response
CollectorReturns_Early(count, n) == count >= 1

\* line 391: `for _ in &*urls` has run once per url
CollectorReturns(count, n) == count = n

\* faulty variant of RecordValid: every response marks the entry counted last
RecordValid_ByCount(table, response, count) == [table EXCEPT ![count] = TRUE]

\* lines 398-400: Some(index) sets the entry of index, None sets nothing
RecordValid(table, response, count) ==
    IF response.kind = "ok" THEN [table EXCEPT ![response.item] = TRUE] ELSE table

\* lines 391-404: the collector reads a response (the original sender lives in
\* this frame, so recv() never yields None), counts it, records it, and
\* returns the table after the last iteration
CollectorRecv ==
    /\ main_pc[Seg] = "await"
    /\ response_chan[Seg] # <<>>
    /\ response_chan' = [response_chan EXCEPT ![Seg] = Tail(@)]
    /\ done_count' = done_count + 1
    /\ index_is_valid' = RecordValid(index_is_valid, Head(response_chan[Seg]), done_count + 1)
    /\ agg_i' = [agg_i EXCEPT ![Seg] = @ + 1]
    /\ main_pc' = [main_pc EXCEPT ![Seg] =
                     IF CollectorReturns(agg_i[Seg] + 1, Len(items[Seg]))
                     THEN "returned" ELSE "await"]
    /\ UNCHANGED <<items, outcome, concurrent_arg, concurrent, length, result,
                   item_chan, prod_pc, prod_idx, workers,
                   started, finished, aborted, last_read, dwpVars, gets>>
    /\ UNCHANGED <<httpVars, pathVars, gvVars, mediapl, filter_invalid, mh_pc, mh_result, written>>

\* ------------------------------------------------------------ get_valid_segments, main_helper
\* faulty variant of KeepSegment: the invalid segments are the ones kept
KeepSegment_Inverted(table, i) == ~table[i]

\* parse/mod.rs:349: `if index_is_valid[i] { Some(elem) } else { None }`
KeepSegment(table, i) == table[i]

\* parse/mod.rs:346-350: enumerate, filter_map, collect
RECURSIVE FilterFrom(_, _, _)
FilterFrom(segments, table, i) ==
    IF i > Len(segments) THEN <<>>
    ELSE (IF KeepSegment(table, i) THEN <<segments[i]>> ELSE <<>>)
             \o FilterFrom(segments, table, i + 1)
GetValidSegments(segments, table) == FilterFrom(segments, table, 1)

\* faulty variant of ZeroValid: an empty playlist is let through
ZeroValid_Never(n) == FALSE

\* main.rs:163: `if num_valid_segments == 0`
ZeroValid(n) == n = 0

MhNone == [ok |-> FALSE, msg |-> "none"]
MhOk == [ok |-> TRUE, msg |-> "none"]
MhErr(msg) == [ok |-> FALSE, msg |-> msg]

\* main_helper at main.rs:149, holding a decoded playlist of n segments
MainHelperIdle(n, c) ==
    /\ mediapl = Ident(n)
    /\ filter_invalid = c
    /\ mh_pc = IF n = 0 /\ c = 0 THEN "idle" ELSE "match"
    /\ mh_result = MhNone
    /\ written = FALSE
    /\ index_is_valid = <<>>
    /\ done_count = 0

\* main.rs:149-157 with parse/mod.rs:327-345: `Some(c) if c > 0` hands the
\* urls of the segments to get_valid_indices
MainHelperValidate ==
    /\ mh_pc = "match"
    /\ filter_invalid > 0
    /\ GetValidIndices(Ident(Len(mediapl)), filter_invalid)
    /\ mh_pc' = "validate"
    /\ UNCHANGED <<mediapl, filter_invalid, mh_result, written>>
    /\ UNCHANGED <<dwpVars, gets, httpVars, pathVars, gvVars>>

\* main.rs:167: `_ => {}`, no validation
MainHelperSkip ==
    /\ mh_pc = "match"
    /\ filter_invalid = 0
    /\ mh_pc' = "write"
    /\ UNCHANGED <<mediapl, filter_invalid, mh_result, written, index_is_valid, done_count>>
    /\ UNCHANGED <<raceVars, dwpVars, gets, httpVars, pathVars, gvVars>>

\* parse/mod.rs:345-350 and main.rs:158-166: get_valid_indices has returned;
\* the playlist keeps the valid segments, and none left is an error
MainHelperFiltered ==
    /\ mh_pc = "validate"
    /\ main_pc[Seg] = "returned"
    /\ mediapl' = GetValidSegments(mediapl, index_is_valid)
    /\ IF ZeroValid(Len(GetValidSegments(mediapl, index_is_valid)))
       THEN mh_pc' = "done" /\ mh_result' = MhErr("0 valid segments found")
       ELSE mh_pc' = "write" /\ UNCHANGED mh_result
    /\ UNCHANGED <<filter_invalid, written, index_is_valid, done_count>>
    /\ UNCHANGED <<raceVars, dwpVars, gets, httpVars, pathVars, gvVars>>

\* main.rs:169-170: write_media_playlist writes the file, or fails
MainHelperWrite(ok) ==
    /\ mh_pc = "write"
    /\ mh_pc' = "done"
    /\ written' = ok
    /\ mh_result' = IF ok THEN MhOk ELSE MhErr("write_media_playlist")
    /\ UNCHANGED <<mediapl, filter_invalid, index_is_valid, done_count>>
    /\ UNCHANGED <<raceVars, dwpVars, gets, httpVars, pathVars, gvVars>>

\* ------------------------------------------------------------ inputs
OutcomeSeqs == UNION {[1..n -> {"ok", "err"}] : n \in 0..MaxItems}

\* every race not yet called, race Top about to be called on the items 1..Len(o)
\* (numbered by input position) with concurrency c and a checker of outcomes o
RacesIdle(o, c) ==
    /\ outcome = [r \in Races |-> IF r = Top THEN o ELSE <<>>]
    /\ items = [r \in Races |-> IF r = Top THEN Ident(Len(o)) ELSE <<>>]
    /\ started = [r \in Races |-> IF r = Top THEN [k \in DOMAIN o |-> 0] ELSE <<>>]
    /\ concurrent_arg = [r \in Races |-> IF r = Top THEN c ELSE 0]
    /\ concurrent = [r \in Races |-> 0]
    /\ length = [r \in Races |-> 0]
    /\ main_pc = [r \in Races |-> "idle"]
    /\ result = [r \in Races |-> NoResult]
    /\ agg_i = [r \in Races |-> 0]
    /\ item_chan = [r \in Races |-> <<>>]
    /\ response_chan = [r \in Races |-> <<>>]
    /\ prod_pc = [r \in Races |-> "none"]
    /\ prod_idx = [r \in Races |-> 0]
    /\ workers = [r \in Races |-> EmptyBag]
    /\ finished = [r \in Races |-> {}]
    /\ aborted = [r \in Races |-> {}]
    /\ last_read = [r \in Races |-> NoResult]

\* every domain operation not yet started, domain d holding n path variants
DomainsIdle(n) ==
    /\ paths = [d \in Domains |-> Ident(n)]
    /\ last = [d \in Domains |-> NoItem]
    /\ dwp_pc = [d \in Domains |-> "idle"]
    /\ dwp_body = [d \in Domains |-> NoResult]
    /\ dwp_result = [d \in Domains |-> NoResult]
    /\ gets = [d \in Domains |-> [k \in 1..n |-> 0]]

\* the parts of the program outside races and domain operations, not in use
OthersIdle ==
    HttpIdle("none") /\ PathIdle(NoVideoData, <<>>) /\ MainHelperIdle(0, 0) /\ GvIdle

\* A caller about to invoke get_first_ok_bounded(items, concurrent, checker)
\* with a checker of fixed outcome per item.
Init ==
    /\ \E o \in OutcomeSeqs, c \in 0..MaxConcurrent : RacesIdle(o, c)
    /\ DomainsIdle(0)
    /\ OthersIdle

Next ==
    \/ GetFirstOkBounded(Top)
    \/ ProducerSend(Top)
    \/ ProducerSendErr(Top)
    \/ ProducerReturn(Top)
    \/ \E ws \in Pool(Top) : WorkerRecv(Top, ws)
    \/ \E ws \in Pool(Top) : WorkerRecvErr(Top, ws)
    \/ \E ws \in Pool(Top) : CheckerStart(Top, ws)
    \/ \E ws \in Pool(Top) : WorkerClosed(Top, ws)
    \/ \E ws \in Pool(Top) : CheckerComplete(Top, ws)
    \/ \E ws \in Pool(Top) : WorkerSend(Top, ws)
    \/ \E ws \in Pool(Top) : WorkerSendErr(Top, ws)
    \/ AggregatorRecv(Top)

Spec == Init /\ [][Next]_vars

\* The tokio runtime polls every task that can make progress: a task woken at
\* a channel operation or at select! is eventually run.  Nothing makes a
\* checker future complete: an op invocation may stay pending for ever.
Scheduling(r) ==
    /\ WF_vars(ProducerSend(r))
    /\ WF_vars(ProducerSendErr(r))
    /\ WF_vars(ProducerReturn(r))
    /\ WF_vars(\E ws \in Pool(r) : WorkerRecv(r, ws))
    /\ WF_vars(\E ws \in Pool(r) : WorkerRecvErr(r, ws))
    /\ WF_vars(\E ws \in Pool(r) : CheckerStart(r, ws))
    /\ WF_vars(\E ws \in Pool(r) : WorkerClosed(r, ws))
    /\ WF_vars(\E ws \in Pool(r) : WorkerSend(r, ws))
    /\ WF_vars(\E ws \in Pool(r) : WorkerSendErr(r, ws))
    /\ WF_vars(AggregatorRecv(r))

\* every op invocation that is not abandoned eventually completes
OpsComplete(r) == WF_vars(\E ws \in Pool(r) : CheckerComplete(r, ws))

\* a race under a fair scheduler, with ops that may hang
SpecSched == Init /\ [][Next]_vars /\ Scheduling(Top)

\* a race under a fair scheduler, with ops that all complete
SpecLive == Init /\ [][Next]_vars /\ Scheduling(Top) /\ OpsComplete(Top)

\* A caller about to invoke get_first_valid_dwp on a domain with up to MaxPaths
\* path variants; the network answers each request as it pleases.
InitDwp ==
    /\ RacesIdle(<<>>, 0)
    /\ \E n \in 0..MaxPaths : DomainsIdle(n)
    /\ OthersIdle

\* The producer of a domain's race never sees its send fail: the race has one
\* worker per item, and a worker ends only holding an item or after the
\* producer has ended, so ProducerSendErr is not among the steps.
NextDwp ==
    \E d \in {Dom} :
        \/ DwpStart(d)
        \/ \E resp \in {"200", "status", "transport", "bytes"} : DwpProbeStep(d, resp)
        \/ \E resp \in {"200", "status", "transport", "bytes"} : DwpProbeOk(d, resp)
        \/ \E resp \in {"200", "status", "transport", "bytes"} : DwpProbeErr(d, resp)
        \/ DwpRaceReturn(d)
        \/ ProducerSend(d)
        \/ ProducerReturn(d)
        \/ \E ws \in Pool(d) : WorkerRecv(d, ws)
        \/ \E ws \in Pool(d) : WorkerRecvErr(d, ws)
        \/ \E ws \in Pool(d) : CheckerStart(d, ws)
        \/ \E ws \in Pool(d) : WorkerClosed(d, ws)
        \/ \E ws \in Pool(d), resp \in {"200", "status", "transport", "bytes"} :
              ProbeStep(d, ws, resp)
        \/ \E ws \in Pool(d) : WorkerSend(d, ws)
        \/ \E ws \in Pool(d) : WorkerSendErr(d, ws)
        \/ AggregatorRecv(d)

SpecDwp == InitDwp /\ [][NextDwp]_vars

\* A caller about to invoke get_m3u8_body or url_is_valid on one URL; the
\* network resolves each invocation of the GET as it pleases.
InitHttp ==
    /\ RacesIdle(<<>>, 0)
    /\ DomainsIdle(0)
    /\ \E f \in HttpFns : HttpIdle(f)
    /\ PathIdle(NoVideoData, <<>>)
    /\ MainHelperIdle(0, 0)
    /\ GvIdle

NextHttp ==
    \/ RetryOnError
    \/ \E status \in Statuses : RetryOk(status)
    \/ \E e \in TransportErrors : RetryErr(e)
    \/ GetM3u8BodyResume
    \/ \E b \in {"bytes"} \cup TransportErrors : GetM3u8BodyBytes(b)
    \/ UrlIsValidResume

SpecHttp == InitHttp /\ [][NextHttp]_vars

\* The inputs of the url-path functions: a VideoData whose streamer name may
\* hold underscores and whose video id holds none, to be turned into a path and
\* parsed back; or a raw path, as the command line supplies it, to be parsed.
NameChars == {"a", Underscore}
IdChars == {"4"}
Times == {-75, -1, 0, 9, 60, 125, 1664038929}
RawPaths == Strings({"a", Underscore, "7", "-"}, MaxNameLen + 1) \ {<<>>}

InitPath ==
    /\ RacesIdle(<<>>, 0)
    /\ DomainsIdle(0)
    /\ HttpIdle("none")
    /\ MainHelperIdle(0, 0)
    /\ GvIdle
    /\ \/ \E s \in Strings(NameChars, MaxNameLen), v \in Strings(IdChars, MaxIdLen),
             t \in Times : PathIdle(VideoData(s, v, t), <<>>)
       \/ \E str \in RawPaths : PathIdle(NoVideoData, str)

NextPath ==
    \/ \E unix \in BOOLEAN, hash \in Hashes : GetUrlPath(unix, hash)
    \/ ParseUrlPath

SpecPath == InitPath /\ [][NextPath]_vars

\* main_helper holding a decoded playlist of up to MaxSegments segments, with
\* validation off (0) or on with up to MaxCheckConcurrent checking tasks; the
\* network answers each GET as it pleases.
InitSeg ==
    /\ RacesIdle(<<>>, 0)
    /\ DomainsIdle(0)
    /\ HttpIdle("none")
    /\ PathIdle(NoVideoData, <<>>)
    /\ GvIdle
    /\ \E n \in 0..MaxSegments, c \in 0..MaxCheckConcurrent :
          (n > 0 \/ c > 0) /\ MainHelperIdle(n, c)

\* Neither send of get_valid_indices can fail: the collector returns only
\* after one response per url, so SegWorkerSendErr is not among the steps.
NextSeg ==
    \/ MainHelperValidate
    \/ MainHelperSkip
    \/ SegProducerSend
    \/ SegProducerReturn
    \/ \E ws \in Pool(Seg) : SegWorkerRecv(ws)
    \/ \E ws \in Pool(Seg) : SegWorkerRecvErr(ws)
    \/ \E ws \in Pool(Seg), resp \in {"200", "status", "transport"} : UrlIsValidStep(ws, resp)
    \/ \E ws \in Pool(Seg) : SegWorkerSend(ws)
    \/ CollectorRecv
    \/ MainHelperFiltered
    \/ \E ok \in BOOLEAN : MainHelperWrite(ok)

SpecSeg == InitSeg /\ [][NextSeg]_vars

\* no step of SpecSeg would have been a failed send of a worker or of the producer
SegSendNeverFails ==
    /\ \A ws \in Pool(Seg) : ~(ws.pc = "send" /\ ResponseClosed(Seg))
    /\ ~(prod_pc[Seg] = "send" /\ prod_idx[Seg] <= Len(items[Seg]) /\ ItemReceiversDropped(Seg))

\* get_valid_dwp called on up to MaxDomains domains with up to MaxSeconds path
\* variants each (the offsets 0..seconds of get_domain_with_paths_list, the
\* same number in both tiers), up to MaxCandidates candidates in a tier; the
\* network answers each request as it pleases.
InitProbe ==
    /\ RacesIdle(<<>>, 0)
    /\ \E p \in 0..MaxSeconds : DomainsIdle(p)
    /\ OthersIdle

\* As in a domain's race, the producer of a tier's race (one worker per
\* domain) never sees its send fail.
NextProbe ==
    \/ \E n \in 0..MaxDomains : n * Len(paths[Dom]) <= MaxCandidates /\ GetValidDwp(n)
    \/ GvTier1Ok
    \/ GvTier1Fail
    \/ GvTier2Return
    \/ \E r \in Tiers :
          \/ ProducerSend(r)
          \/ ProducerReturn(r)
          \/ \E ws \in Pool(r) : WorkerRecv(r, ws)
          \/ \E ws \in Pool(r) : WorkerRecvErr(r, ws)
          \/ \E ws \in Pool(r) : OuterCheckerStart(r, ws)
          \/ \E ws \in Pool(r) : OuterWorkerClosed(r, ws)
          \/ \E ws \in Pool(r) : OuterCheckerComplete(r, ws)
          \/ \E ws \in Pool(r) : WorkerSend(r, ws)
          \/ \E ws \in Pool(r) : WorkerSendErr(r, ws)
          \/ AggregatorRecv(r)
    \/ \E d \in Domains :
          \/ \E resp \in {"200", "status", "transport", "bytes"} : DwpProbeStep(d, resp)
          \/ \E resp \in {"200", "status", "transport", "bytes"} : DwpProbeOk(d, resp)
          \/ \E resp \in {"200", "status", "transport", "bytes"} : DwpProbeErr(d, resp)
          \/ DwpRaceReturn(d)
          \/ ProducerSend(d)
          \/ ProducerReturn(d)
          \/ \E ws \in Pool(d) : WorkerRecv(d, ws)
          \/ \E ws \in Pool(d) : WorkerRecvErr(d, ws)
          \/ \E ws \in Pool(d) : CheckerStart(d, ws)
          \/ \E ws \in Pool(d) : WorkerClosed(d, ws)
          \/ \E ws \in Pool(d), resp \in {"200", "status", "transport", "bytes"} :
                ProbeStep(d, ws, resp)
          \/ \E ws \in Pool(d) : WorkerSend(d, ws)
          \/ \E ws \in Pool(d) : WorkerSendErr(d, ws)
          \/ AggregatorRecv(d)

SpecProbe == InitProbe /\ [][NextProbe]_vars

\* no step of SpecProbe would have been a failed send of a producer
ProbeProducerSendNeverFails ==
    \A r \in Tiers \cup Domains :
        ~(prod_pc[r] = "send" /\ prod_idx[r] <= Len(items[r]) /\ ItemReceiversDropped(r))

\* no step of SpecDwp would have been a failed send of the producer
DwpProducerSendNeverFails ==
    \A d \in Domains :
        ~(prod_pc[d] = "send" /\ prod_idx[d] <= Len(items[d]) /\ ItemReceiversDropped(d))

\* ------------------------------------------------------------ properties of a race
Returned(r) == main_pc[r] = "returned"
Called(r) == main_pc[r] # "idle"
NumItems(r) == Len(items[r])
OkItems(r) == {i \in DOMAIN outcome[r] : outcome[r][i] = "ok"}
AnyOk(r) == OkItems(r) # {}
Running(r) == {ws \in Pool(r) : ws.pc = "run"}
NumRunning(r) == LET run == Running(r)
                 IN IF run = {} THEN 0 ELSE CopiesIn(CHOOSE ws \in run : TRUE, workers[r])
                                            + Cardinality(run) - 1
FirstOk(r) == CHOOSE i \in OkItems(r) : \A j \in OkItems(r) : i <= j

\* C1: whenever a non-empty race in which the op of at least one item succeeds has
\* returned, whatever the concurrency and the interleaving, it returned the
\* Success of an item whose op succeeds: never a Failure, never "no work".
C1_SuccessWins ==
    (Returned(Top) /\ NumItems(Top) > 0 /\ AnyOk(Top))
        => (result[Top].kind = "ok" /\ result[Top].item \in OkItems(Top))

\* a race returned a Success after failures of other items had completed
C1_Witness ==
    /\ Returned(Top)
    /\ result[Top].kind = "ok"
    /\ \E i \in finished[Top] : outcome[Top][i] = "err"
    /\ NumItems(Top) - Cardinality(OkItems(Top)) >= 2

\* C2: a race over an empty item sequence returns None at once, for any
\* concurrency, and no worker ever claims an item or invokes op.
C2_EmptyNoWork ==
    NumItems(Top) = 0 =>
        /\ main_pc[Top] # "await"
        /\ Returned(Top) => result[Top] = NoResult
        /\ \A ws \in Pool(Top) : ws.pc \in {"recv", "done"}
        /\ finished[Top] = {} /\ aborted[Top] = {}

\* an empty race with spawned workers has returned and its workers have ended
C2_Witness ==
    /\ NumItems(Top) = 0
    /\ Returned(Top)
    /\ result[Top] = NoResult
    /\ concurrent_arg[Top] >= 2
    /\ NumWorkers(Top) = concurrent_arg[Top]
    /\ \A ws \in Pool(Top) : ws.pc = "done"

\* C3: when no op succeeds, a non-empty race returns only after the aggregator
\* has read exactly len(items) outcomes, and it returns the Failure read last.
C3_LastFailure ==
    (Returned(Top) /\ NumItems(Top) > 0 /\ ~AnyOk(Top)) =>
        /\ agg_i[Top] = NumItems(Top)
        /\ result[Top].kind = "err"
        /\ result[Top] = last_read[Top]

\* the surviving failure is the one completed last, not the last of the input:
\* here the first item's
C3_Witness ==
    /\ Returned(Top)
    /\ NumItems(Top) >= 2
    /\ ~AnyOk(Top)
    /\ agg_i[Top] = NumItems(Top)
    /\ result[Top] = Err(1)

\* C4: at concurrency 1 a non-empty race whose items all fail returns the
\* failure of the last item in input order.
C4_SequentialLastFailure ==
    (Returned(Top) /\ concurrent_arg[Top] = 1 /\ NumItems(Top) > 0 /\ ~AnyOk(Top))
        => result[Top] = Err(items[Top][NumItems(Top)])

\* a sequential race over several failing items has returned
C4_Witness ==
    /\ Returned(Top)
    /\ concurrent_arg[Top] = 1
    /\ NumItems(Top) >= 2
    /\ ~AnyOk(Top)
    /\ result[Top].kind = "err"

\* C5: at concurrency 1 at most one op invocation is in progress, invocations
\* begin in input order (an item's op begins only after the op of every earlier
\* item completed), and if some item succeeds the race returns the Success of
\* the first succeeding item in input order.
C5_SequentialDeterminism ==
    concurrent_arg[Top] = 1 =>
        /\ NumRunning(Top) <= 1
        /\ \A i \in DOMAIN started[Top] :
             started[Top][i] > 0 => \A j \in 1..(i - 1) : j \in finished[Top]
        /\ (Returned(Top) /\ AnyOk(Top)) => result[Top] = Ok(FirstOk(Top))

\* a sequential race returned the first success although a later item succeeds too
C5_Witness ==
    /\ concurrent_arg[Top] = 1
    /\ Returned(Top)
    /\ Cardinality(OkItems(Top)) >= 2
    /\ FirstOk(Top) >= 2
    /\ result[Top] = Ok(FirstOk(Top))

\* the final results of a race with one worker per item, over all interleavings
FanOutResults(r) ==
    IF NumItems(r) = 0 THEN {NoResult}
    ELSE IF AnyOk(r) THEN {Ok(i) : i \in OkItems(r)}
    ELSE {Err(i) : i \in DOMAIN outcome[r]}

\* C6: called with concurrency 0 or with concurrency N on N items, the race is
\* in the same configuration: N workers are spawned and the local `concurrent`
\* is N (nothing after the call reads the argument), and every final result
\* lies in the same set, the successes if there is one and any failure otherwise.
C6_ZeroIsFanOut ==
    (Called(Top) /\ concurrent_arg[Top] \in {0, NumItems(Top)}) =>
        /\ concurrent[Top] = NumItems(Top)
        /\ NumWorkers(Top) = NumItems(Top)
        /\ Returned(Top) => result[Top] \in FanOutResults(Top)

\* called with concurrency 0, a race returned a success that is not the first in
\* input order, which takes more than one worker
C6_Witness ==
    /\ concurrent_arg[Top] = 0
    /\ NumItems(Top) >= 2
    /\ NumWorkers(Top) = NumItems(Top)
    /\ Returned(Top)
    /\ result[Top].kind = "ok"
    /\ result[Top].item > FirstOk(Top)

C8_StopsAfterSendErr ==
    \A ws \in Pool(Top) : ws.send_failed => ws.pc \notin {"select", "run", "send"}

\* C9: the race applies op to each item at most once, and when no item succeeds
\* a race that has returned applied op to every item exactly once, to completion.
C9_AtMostOnce ==
    /\ \A i \in DOMAIN started[Top] : started[Top][i] <= 1
    /\ (Returned(Top) /\ ~AnyOk(Top)) =>
         \A i \in DOMAIN started[Top] : started[Top][i] = 1 /\ i \in finished[Top]

\* a race over several failing items with fewer workers than items has returned
C9_Witness ==
    /\ Returned(Top)
    /\ ~AnyOk(Top)
    /\ NumItems(Top) >= 3
    /\ concurrent[Top] = 2
    /\ \A i \in DOMAIN started[Top] : started[Top][i] = 1

\* ------------------------------------------------------------ properties of a domain operation
NumVariants(d) == Cardinality(DOMAIN gets[d])
OtherVariants(d) == DOMAIN gets[d] \ {NumVariants(d)}

\* C10: get_first_valid_dwp of a domain first probes the last variant alone
\* (while that probe is pending no race exists and no other variant has been
\* requested); if the probe succeeds, the operation returns at once with that
\* (domain, path, body), the race is never invoked and no request is ever
\* issued for another variant of the domain.
C10_LastProbedAlone ==
    /\ dwp_pc[Dom] \in {"get1", "get2", "body"} =>
         /\ last[Dom] = NumVariants(Dom)
         /\ gets[Dom][last[Dom]] >= 1
         /\ main_pc[Dom] = "idle"
         /\ \A p \in OtherVariants(Dom) : gets[Dom][p] = 0
    /\ dwp_body[Dom].kind = "ok" =>
         /\ dwp_pc[Dom] = "done"
         /\ dwp_result[Dom] = Ok(NumVariants(Dom))
         /\ main_pc[Dom] = "idle"
         /\ NumWorkers(Dom) = 0
         /\ \A p \in OtherVariants(Dom) : gets[Dom][p] = 0

\* on a domain with several variants the direct probe succeeded on its retry
C10_Witness ==
    /\ NumVariants(Dom) >= 2
    /\ dwp_body[Dom].kind = "ok"
    /\ dwp_pc[Dom] = "done"
    /\ gets[Dom][NumVariants(Dom)] = 2

\* C11: when the direct probe of the last variant fails, the operation races
\* exactly the remaining variants (the last one is no item of the race and is
\* not probed again) with one worker per variant, and returns the race's
\* result: a success if the probe of any remaining variant succeeded, otherwise
\* the failure the race read last; with no variant remaining it returns the
\* failure of the direct probe.
C11_RaceRemaining ==
    dwp_body[Dom].kind = "err" =>
        /\ dwp_body[Dom] = Err(NumVariants(Dom))
        /\ Called(Dom)
        /\ items[Dom] = Ident(NumVariants(Dom) - 1)
        /\ NumWorkers(Dom) = NumVariants(Dom) - 1
        /\ NumVariants(Dom) \notin DOMAIN started[Dom]
        /\ gets[Dom][NumVariants(Dom)] <= 2
        /\ dwp_pc[Dom] = "done" =>
             IF NumVariants(Dom) = 1
             THEN dwp_result[Dom] = dwp_body[Dom]
             ELSE /\ Returned(Dom)
                  /\ dwp_result[Dom] = result[Dom]
                  /\ AnyOk(Dom) => /\ dwp_result[Dom].kind = "ok"
                                   /\ dwp_result[Dom].item \in OkItems(Dom)
                  /\ ~AnyOk(Dom) => /\ dwp_result[Dom].kind = "err"
                                    /\ dwp_result[Dom] = last_read[Dom]
                                    /\ agg_i[Dom] = NumVariants(Dom) - 1

\* after a failed direct probe the race over two remaining variants returned
\* the failure of the first of them, which the operation returned
C11_Witness ==
    /\ NumVariants(Dom) >= 3
    /\ dwp_body[Dom].kind = "err"
    /\ dwp_pc[Dom] = "done"
    /\ NumWorkers(Dom) = NumVariants(Dom) - 1
    /\ dwp_result[Dom] = Err(1)

\* the single-variant case of C11: the direct probe's failure is returned
C11_SingleVariant ==
    /\ NumVariants(Dom) = 1
    /\ dwp_pc[Dom] = "done"
    /\ dwp_result[Dom] = Err(1)

\* C18: retry_on_error invokes the operation once; an Ok of that invocation is
\* returned with no second invocation; an Err leads to exactly one more
\* invocation, whose outcome is returned whatever it is. The operation is
\* invoked at most twice and the error of the first invocation is never what
\* is returned.
C18_RetryOnce ==
    /\ Invocations <= 2
    /\ rq_pc # "idle" => Invocations >= 1
    /\ retry_result # NoAttempt =>
          /\ Invocations = Len(attempts)
          /\ retry_result = attempts[Len(attempts)]
          /\ attempts[1].ok => Len(attempts) = 1
          /\ ~attempts[1].ok => Len(attempts) = 2 /\ retry_result.n = 2
    /\ retry_result = NoAttempt => \A k \in DOMAIN attempts : ~attempts[k].ok

\* both invocations failed, differently, and the second error was returned
C18_Witness ==
    /\ Len(attempts) = 2
    /\ ~attempts[2].ok
    /\ attempts[1].val # attempts[2].val
    /\ retry_result = attempts[2]

C19_RetryRescues ==
    /\ rq_fn = "url_is_valid"
    /\ rq_pc = "done"
    /\ Len(attempts) = 2
    /\ ~attempts[1].ok
    /\ rq_result = Success("true")

\* C20: parsing the path get_url_path(true) built from a VideoData of
\* streamer name S (underscores allowed), video id V and unix time T (no
\* underscores in either) succeeds and recovers exactly S, V and T.
C20_ParseInvertsPath ==
    (path_pc = "parsed" /\ video_data # NoVideoData /\ to_unix) =>
        /\ parsed.ok
        /\ parsed.data = video_data

\* a streamer name with an underscore, and a negative time, were recovered
C20_Witness ==
    /\ path_pc = "parsed"
    /\ to_unix
    /\ Underscore \in {video_data.streamer_name[k] : k \in DOMAIN video_data.streamer_name}
    /\ video_data.unix_time_seconds < 0
    /\ Len(video_data.video_id) > 0
    /\ Len(url_path) > HashLen + 3
    /\ parsed.ok
    /\ parsed.data = video_data

\* C15: with N urls and concurrency >= 1, get_valid_indices hands every index
\* to exactly one worker, which checks it exactly once; no index is checked
\* twice at any time; and the collector returns only after it has read exactly
\* N responses, every check having completed, whatever the outcomes were.
C15_ValidateAll ==
    /\ \A i \in DOMAIN started[Seg] : started[Seg][i] <= 1
    /\ main_pc[Seg] # "idle" =>
          /\ concurrent[Seg] >= 1
          /\ NumWorkers(Seg) = concurrent[Seg]
          /\ done_count = agg_i[Seg]
          /\ done_count <= Len(items[Seg])
    /\ main_pc[Seg] = "returned" =>
          /\ done_count = Len(items[Seg])
          /\ \A i \in DOMAIN items[Seg] : started[Seg][i] = 1 /\ i \in finished[Seg]
          /\ \A ws \in Pool(Seg) : ws.pc \in {"recv", "done"}
          /\ item_chan[Seg] = <<>> /\ response_chan[Seg] = <<>>

\* three urls, two workers: the collector returned after three responses, the
\* first url valid and the others not
C15_Witness ==
    /\ main_pc[Seg] = "returned"
    /\ Len(items[Seg]) = MaxSegments
    /\ concurrent[Seg] >= 2
    /\ done_count = MaxSegments
    /\ outcome[Seg][1] = "ok"
    /\ \A i \in 2..MaxSegments : outcome[Seg][i] = "err"

\* the segments whose check was valid, in playlist order
ValidSubsequence(n) == SelectSeq(Ident(n), LAMBDA i : outcome[Seg][i] = "ok")

\* C16: when get_valid_indices has returned, entry i of the validity table is
\* true exactly when the check of segment i was valid, in whatever order the
\* checks completed; and the filtered playlist is exactly the subsequence of
\* the original segments whose entry is true, in their original order.
C16_TableAndFilter ==
    /\ main_pc[Seg] = "returned" =>
          /\ DOMAIN index_is_valid = DOMAIN items[Seg]
          /\ \A i \in DOMAIN items[Seg] : index_is_valid[i] <=> outcome[Seg][i] = "ok"
    /\ (filter_invalid > 0 /\ mh_pc \in {"write", "done"}) =>
          mediapl = ValidSubsequence(Len(items[Seg]))

\* of three segments the middle one was dropped and the other two kept in order
C16_Witness ==
    /\ filter_invalid > 0
    /\ mh_pc = "write"
    /\ Len(items[Seg]) = 3
    /\ index_is_valid = <<TRUE, FALSE, TRUE>>
    /\ mediapl = <<1, 3>>

\* C17: with validation enabled and every one of the N checks failed, the
\* validity table is all false, the filtered playlist is empty, and
\* main_helper returns the "0 valid segments found" error with no output
\* written.
C17_ZeroValidSegments ==
    (/\ filter_invalid > 0
     /\ main_pc[Seg] = "returned"
     /\ \A i \in DOMAIN items[Seg] : outcome[Seg][i] = "err") =>
        /\ \A i \in DOMAIN index_is_valid : ~index_is_valid[i]
        /\ ~written
        /\ mh_pc \in {"validate", "done"}
        /\ mh_pc = "done" => /\ mediapl = <<>>
                             /\ mh_result = MhErr("0 valid segments found")

\* the checks of all of two or more segments failed and main_helper returned
C17_Witness ==
    /\ filter_invalid > 0
    /\ Len(items[Seg]) >= 2
    /\ \A i \in DOMAIN items[Seg] : i \in DOMAIN outcome[Seg] /\ outcome[Seg][i] = "err"
    /\ mh_pc = "done"
    /\ mh_result = MhErr("0 valid segments found")
    /\ ~written

\* ------------------------------------------------------------ properties of get_valid_dwp
\* the domain operations of a tier, and whether a GET went to a candidate of one
TierIds(t) == {TierDomains(t, MaxDomains)[k] : k \in 1..MaxDomains}
Requested(d) == \E c \in DOMAIN gets[d] : gets[d][c] > 0
TierTouched(t) ==
    \/ main_pc[t] # "idle"
    \/ \E d \in TierIds(t) : Requested(d) \/ dwp_pc[d] # "idle"

\* C12: the second tier is probed only after the first tier's race over the
\* domains has returned without a success: whenever anything of the second
\* tier has started (its race, a domain operation, a request), the first
\* tier's race has returned and its result is no success; and when the first
\* tier returned a success, get_valid_dwp returns that result and nothing of
\* the second tier ever starts.
C12_TierTwoAfterTierOne ==
    /\ TierTouched(Tier2) =>
          /\ main_pc[Tier1] = "returned"
          /\ result[Tier1].kind # "ok"
    /\ (main_pc[Tier1] = "returned" /\ result[Tier1].kind = "ok") =>
          /\ ~TierTouched(Tier2)
          /\ gv_pc = "done" => gv_result = result[Tier1]
    /\ gv_pc = "tier1" => ~TierTouched(Tier2)

\* both domains failed in the first tier and a request of the second tier is out
C12_Witness ==
    /\ Len(items[Tier1]) = MaxDomains
    /\ main_pc[Tier1] = "returned"
    /\ result[Tier1].kind = "err"
    /\ gv_pc = "tier2"
    /\ \E d \in TierIds(Tier2) : Requested(d)

\* the first tier returned a success, which get_valid_dwp returned
C12_TierOneSuccess ==
    /\ Len(items[Tier1]) = MaxDomains
    /\ gv_pc = "done"
    /\ gv_result.kind = "ok"
    /\ gv_result = result[Tier1]

\* C13: get_valid_dwp returns the "no domains supplied" error exactly when
\* the domain list is empty; with a non-empty list and no success in either
\* tier it returns the failure the second tier's race read last.
C13_NoDomainsIffEmpty ==
    gv_pc = "done" =>
        /\ gv_result.kind = "no domains supplied" <=> Len(items[Tier1]) = 0
        /\ (Len(items[Tier1]) > 0 /\ gv_result.kind # "ok") =>
              /\ gv_result.kind = "err"
              /\ gv_result = last_read[Tier2]
              /\ gv_result.item \in TierIds(Tier2)
              /\ agg_i[Tier2] = Len(items[Tier2])
              /\ Len(items[Tier2]) = Len(items[Tier1])

\* both domains failed in both tiers; the failure read last, the first domain's,
\* was returned
C13_Witness ==
    /\ Len(items[Tier1]) = MaxDomains
    /\ gv_pc = "done"
    /\ gv_result = Err(MaxDomains + 1)
    /\ \A d \in Domains : dwp_result[d].kind = "err"

\* the empty domain list
C13_EmptyList ==
    /\ gv_pc = "done"
    /\ Len(items[Tier1]) = 0
    /\ gv_result = NoDomainsSupplied

\* the first tier's race has returned the result of domain operation k
Committed(k) == main_pc[Tier1] = "returned" /\ result[Tier1] = Ok(k)

\* so far only the last candidate of domain operation k has answered 200
OnlyLastAnswered(k) ==
    /\ dwp_body[k] = Ok(NumVariants(k))
    /\ main_pc[k] = "idle"
    /\ \A d \in Domains \ {k} :
          /\ dwp_body[d].kind # "ok"
          /\ dwp_pc[d] # "body"
          /\ \A c \in DOMAIN outcome[d] : outcome[d][c] # "ok"
          /\ \A ws \in Pool(d) : ws.op # "body"

Effective(r) == IF concurrent_arg[r] = 0 THEN NumItems(r) ELSE concurrent_arg[r]
\* the worker tasks that hold an item (between recv and the end of the op)
Holding(r) == {ws \in Pool(r) : ws.item # NoItem}

\* C21: in every state of a race that has been called, exactly as many worker
\* tasks exist as the effective concurrency (running or ended), the op
\* invocations in progress are at most that many, and a worker task has an op
\* in progress only for the one item it holds.
C21_BoundedInvocations ==
    Called(Top) =>
        /\ NumWorkers(Top) = Effective(Top)
        /\ NumRunning(Top) <= Effective(Top)
        /\ \A ws \in Pool(Top) :
              /\ ws.pc = "run" => ws \in Holding(Top)
              /\ ws.pc \in {"recv", "send", "done"} => ws.op = "none"

\* with concurrency 2 on three items, two op invocations are in progress while
\* the third item waits in the work queue
C21_Witness ==
    /\ concurrent_arg[Top] = 2
    /\ NumItems(Top) = 3
    /\ NumRunning(Top) = 2
    /\ item_chan[Top] = <<3>>

\* ------------------------------------------------------------ C22
\* the worker tasks that hold an item or the result made from it: the item was
\* taken off the work queue and its outcome has not entered the result channel
Busy(r) == {ws \in Pool(r) : ws.pc \in {"select", "run", "send"}}
NumBusy(r) == BagCardinality([ws \in Busy(r) |-> CopiesIn(ws, workers[r])])
\* the items taken by workers whose outcome the aggregator has not consumed
InFlight(r) == NumBusy(r) + Len(response_chan[r])

\* a step of the producer that hands out an item
HandsOut(r) == prod_idx'[r] = prod_idx[r] + 1 /\ main_pc[r] # "idle"

\* C22: in every state at most one item waits in the work queue, at most one
\* result waits in the result channel, and the items taken by workers whose
\* outcome the aggregator has not consumed are at most concurrency + 1, however
\* many items there are; the producer hands out an item only into an empty
\* queue, so not before a worker has taken the item queued before.
C22_Backpressure ==
    /\ [](/\ Len(item_chan[Top]) <= 1
          /\ Len(response_chan[Top]) <= 1
          /\ InFlight(Top) <= concurrent[Top] + 1)
    /\ [][HandsOut(Top) =>
            /\ item_chan[Top] = <<>>
            /\ item_chan'[Top] = <<items[Top][prod_idx[Top]]>>]_vars

\* with one worker and three items: the result of the first item waits in the
\* result channel, the worker holds the second item and the third is queued
C22_Witness ==
    /\ concurrent[Top] = 1
    /\ NumItems(Top) = 3
    /\ Len(response_chan[Top]) = 1
    /\ InFlight(Top) = 2
    /\ item_chan[Top] = <<3>>

\* ------------------------------------------------------------ C23
\* the candidates of a domain operation: the path variants it was given
Candidates(d) == DOMAIN gets[d]
\* get_m3u8_body of candidate c of domain operation d returned Ok / Err: the
\* direct probe of the last variant, or a checker of the domain's race
CandidateOk(d, c) ==
    \/ c = last[d] /\ dwp_body[d].kind = "ok"
    \/ c \in DOMAIN outcome[d] /\ outcome[d][c] = "ok"
CandidateFailed(d, c) ==
    \/ c = last[d] /\ dwp_body[d].kind = "err"
    \/ c \in DOMAIN outcome[d] /\ outcome[d][c] = "err"
\* the domain operations of both tiers on the domains get_valid_dwp was given
ProbedDomains ==
    {TierDomains(t, Len(items[Tier1]))[k] : t \in Tiers, k \in 1..Len(items[Tier1])}
\* no request was repeated: every candidate answered its one GET with a status
NoRetries == \A d \in Domains : \A c \in Candidates(d) : gets[d][c] <= 1

SomeOkFinished(r) == \E i \in finished[r] : outcome[r][i] = "ok"
ReturnedOk(r) == Returned(r) /\ result[r].kind = "ok"

\* C24: in a race called with concurrency 0, once the op of some item has
\* completed with a success the race eventually returns a success, under a
\* fair scheduler and with nothing said about the other ops, which may stay
\* pending for ever: the aggregator does not wait for them.
C24_SuccessDespiteHanging ==
    (concurrent_arg[Top] = 0 /\ SomeOkFinished(Top)) ~> ReturnedOk(Top)

\* a race with concurrency 0 on three items has returned the success of the
\* second item, the only op that completed; the two other ops are still pending
C24_Witness ==
    /\ concurrent_arg[Top] = 0
    /\ NumItems(Top) = 3
    /\ finished[Top] = {2}
    /\ result[Top] = Ok(2)
    /\ Returned(Top)
    /\ NumRunning(Top) = 2

\* ------------------------------------------------------------ C25
\* every task the race spawned has ended: the producer and each worker
Terminated(r) ==
    /\ prod_pc[r] = "done"
    /\ \A ws \in Pool(r) : ws.pc = "done"

\* C25: under a fair scheduler and with every op invocation completing, a
\* race that has been called eventually returns, whatever the items and the
\* concurrency, and once it has returned the producer task and every worker
\* task eventually end: none stays blocked on a channel.
C25_ReturnsAndTerminates ==
    /\ Called(Top) ~> Returned(Top)
    /\ Returned(Top) ~> Terminated(Top)

\* a race with one worker on three items returned the success of the first
\* item while the producer was blocked sending the third; the worker and the
\* producer have ended, the producer by a failed send (the third item was
\* never handed out)
C25_Witness ==
    /\ concurrent_arg[Top] = 1
    /\ NumItems(Top) = 3
    /\ Returned(Top)
    /\ result[Top] = Ok(1)
    /\ Terminated(Top)
    /\ prod_idx[Top] = 3

====
